---- MODULE Spec2Model ----
(***************************************************************************)
(* The difficulty-adaptation loop of the adaptive geography quiz:          *)
(*   ml_model/adaptive_quiz_model.py  AdaptiveQuizModel (the predictor)    *)
(*   ml_model/student_tracker.py      StudentTracker (the aggregator)      *)
(*                                                                         *)
(* Numbers.  The program computes with Python floats.  The model computes  *)
(* with exact rationals [num, den] in lowest terms (den > 0), plus the     *)
(* float value +inf, written Inf.  Every comparison the code makes against *)
(* 0.8, 0.4, 1.0 and 10.0 is between values at least 1/(5*den) apart or    *)
(* exactly equal (a/b is the correctly rounded quotient, and 4/5, 2/5 are  *)
(* the literals 0.8, 0.4), so the rational comparison decides as the float *)
(* comparison does for the small integers used here.                       *)
(***************************************************************************)
EXTENDS Integers, Sequences, FiniteSets, TLC

VARIABLES
    is_trained,     \* AdaptiveQuizModel.is_trained
    scaler,         \* AdaptiveQuizModel.scaler  (StandardScaler, fitted or not)
    model,          \* AdaptiveQuizModel.model   (RandomForestRegressor)
    model_file,     \* the file at AdaptiveQuizModel.model_path (joblib blob)
    train_pc,       \* position of the thread running train_model
    train_data,     \* the training_data argument of the running train_model
    train_before,   \* history: self.scaler and self.model when train_model was called
    init_pc,        \* position of __init__: "load" before its load_model, else "done"
    students,       \* StudentTracker.students: student_id -> student
    performance_history,  \* StudentTracker.performance_history: student_id -> records
    students_file,  \* the CSV file at StudentTracker.students_file
    today,          \* the calendar date datetime.now() falls on, as a day number
    last            \* the step taken last: operation, argument, result

pvars == <<is_trained, scaler, model, model_file, train_pc, train_data,
           train_before, init_pc>>
tvars == <<students, performance_history, students_file, today>>
vars == <<is_trained, scaler, model, model_file, train_pc, train_data,
          train_before, init_pc, students, performance_history,
          students_file, today, last>>

(***************************************************************************)
(* Float values: exact rationals and +inf.                                 *)
(***************************************************************************)
Abs(n) == IF n < 0 THEN -n ELSE n

RECURSIVE GCD(_, _)
GCD(a, b) == IF b = 0 THEN a ELSE GCD(b, a % b)

\* the float n/d, d > 0, in lowest terms
Q(n, d) ==
    LET g == GCD(Abs(n), d)
    IN  [num |-> n \div g, den |-> d \div g]

\* float('inf')
Inf == [num |-> 1, den |-> 0]

IsFinite(x) == x.den # 0

\* a < b
Lt(a, b) ==
    IF ~IsFinite(a) THEN FALSE
    ELSE IF ~IsFinite(b) THEN TRUE
    ELSE a.num * b.den < b.num * a.den

\* a <= b on floats without NaN
Le(a, b) == ~Lt(b, a)

\* a + b
Add(a, b) ==
    IF ~IsFinite(a) \/ ~IsFinite(b) THEN Inf
    ELSE Q(a.num * b.den + b.num * a.den, a.den * b.den)

\* a - b, b finite
Sub(a, b) ==
    IF ~IsFinite(a) THEN Inf
    ELSE Q(a.num * b.den - b.num * a.den, a.den * b.den)

\* a * b, both finite
Mul(a, b) == Q(a.num * b.num, a.den * b.den)

\* a / b, b finite and positive
Div(a, b) ==
    IF ~IsFinite(a) THEN Inf
    ELSE Q(a.num * b.den, a.den * b.num)

\* Python's min(a, b): a unless b < a
PyMin(a, b) == IF Lt(b, a) THEN b ELSE a

\* Python's max(a, b): a unless b > a
PyMax(a, b) == IF Lt(a, b) THEN b ELSE a

\* dict.get(key, default)
Get(d, key, default) == IF key \in DOMAIN d THEN d[key] ELSE default

(***************************************************************************)
(* AdaptiveQuizModel: pure functions                                       *)
(***************************************************************************)

\* extract_features: the 5 features in their fixed order
extract_features(performance_data) ==
    LET avg_response_time == Get(performance_data, "avg_response_time", Q(0, 1))
        accuracy == Get(performance_data, "accuracy", Q(1, 2))
        avg_attempts == Get(performance_data, "avg_attempts", Q(1, 1))
        current_difficulty == Get(performance_data, "current_difficulty", Q(1, 1))
        recent_accuracy == Get(performance_data, "recent_accuracy", Q(1, 2))
    IN  << PyMin(Div(avg_response_time, Q(60, 1)), Q(1, 1)),
           accuracy,
           PyMin(Div(avg_attempts, Q(5, 1)), Q(1, 1)),
           Div(current_difficulty, Q(10, 1)),
           recent_accuracy >>

\* a faulty heuristic: the steps are not held at 10.0 and 1.0
heuristic_without_bounds(performance_data) ==
    LET accuracy == Get(performance_data, "accuracy", Q(1, 2))
        current_difficulty == Get(performance_data, "current_difficulty", Q(1, 1))
    IN  IF Lt(Q(4, 5), accuracy)
        THEN Add(current_difficulty, Q(1, 2))
        ELSE IF Lt(accuracy, Q(2, 5))
        THEN Sub(current_difficulty, Q(1, 2))
        ELSE current_difficulty

\* a faulty heuristic: accuracy >= 0.8 in place of accuracy > 0.8
heuristic_inclusive_threshold(performance_data) ==
    LET accuracy == Get(performance_data, "accuracy", Q(1, 2))
        current_difficulty == Get(performance_data, "current_difficulty", Q(1, 1))
    IN  IF Le(Q(4, 5), accuracy)
        THEN PyMin(Q(10, 1), Add(current_difficulty, Q(1, 2)))
        ELSE IF Lt(accuracy, Q(2, 5))
        THEN PyMax(Q(1, 1), Sub(current_difficulty, Q(1, 2)))
        ELSE current_difficulty

\* _calculate_heuristic_difficulty
calculate_heuristic_difficulty(performance_data) ==
    LET accuracy == Get(performance_data, "accuracy", Q(1, 2))
        current_difficulty == Get(performance_data, "current_difficulty", Q(1, 1))
    IN  IF Lt(Q(4, 5), accuracy)
        THEN PyMin(Q(10, 1), Add(current_difficulty, Q(1, 2)))
        ELSE IF Lt(accuracy, Q(2, 5))
        THEN PyMax(Q(1, 1), Sub(current_difficulty, Q(1, 2)))
        ELSE current_difficulty

(***************************************************************************)
(* The fitted objects.  A training batch is modelled as n samples that are *)
(* all equal to one sample (a dict with the snapshot keys and the label    *)
(* optimal_difficulty).  On such a batch every row of X_train is the same: *)
(* StandardScaler.fit learns mean_ = that row and scale_ = 1 (zero         *)
(* variance is scaled by 1), and every tree of the forest is one leaf      *)
(* holding the common label, so the fitted regressor predicts that label.  *)
(* Both fits validate their input first and raise ValueError on an         *)
(* infinite value.                                                         *)
(***************************************************************************)

\* RandomForestRegressor(n_estimators=50, ...)
n_estimators == 50

\* len(training_data) < 10
MinSamples == 10

\* StandardScaler() as constructed: not fitted
NewScaler == [fitted |-> FALSE, mean |-> << >>]

\* RandomForestRegressor(...) as constructed: not fitted
NewModel == [fitted |-> FALSE, leaf |-> Q(0, 1), n_estimators |-> n_estimators]

\* no file at model_path
NoFile == [exists |-> FALSE, model |-> NewModel, scaler |-> NewScaler, is_trained |-> FALSE]

AllFinite(row) == \A i \in DOMAIN row : IsFinite(row[i])

\* the rows of X: extract_features(data_point).flatten() for each data_point
TrainingRow(training_data) == extract_features(training_data.sample)

\* the labels y: data_point.get('optimal_difficulty', 5.0)
TrainingLabel(training_data) == Get(training_data.sample, "optimal_difficulty", Q(5, 1))

\* self.scaler.fit_transform(X_train): the scaler after a fit that succeeds
FitScaler(training_data) == [fitted |-> TRUE, mean |-> TrainingRow(training_data)]

\* self.model.fit(X_train_scaled, y_train): the regressor after a fit that succeeds
FitModel(regressor, training_data) ==
    [regressor EXCEPT !.fitted = TRUE, !.leaf = TrainingLabel(training_data)]

\* self.scaler.transform(features): NotFittedError or ValueError, or the scaled row
scaler_transform(sc, features) ==
    IF ~sc.fitted \/ ~AllFinite(features)
    THEN [raised |-> TRUE, value |-> << >>]
    ELSE [raised |-> FALSE,
          value |-> [i \in DOMAIN features |-> Sub(features[i], sc.mean[i])]]

\* self.model.predict(features_scaled)[0]: NotFittedError, or the leaf's label
model_predict(regressor, features_scaled) ==
    IF ~regressor.fitted
    THEN [raised |-> TRUE, value |-> Q(0, 1)]
    ELSE [raised |-> FALSE, value |-> regressor.leaf]

\* a faulty predict_difficulty: untrained, it returns the current difficulty
\* and skips the heuristic
predict_untrained_keeps_difficulty(trained, sc, regressor, performance_data) ==
    IF ~trained
    THEN [raised |-> FALSE,
          value |-> Get(performance_data, "current_difficulty", Q(1, 1))]
    ELSE LET features == extract_features(performance_data)
             features_scaled == scaler_transform(sc, features)
             predicted == model_predict(regressor, features_scaled.value)
         IN  IF features_scaled.raised \/ predicted.raised
             THEN [raised |-> FALSE,
                   value |-> calculate_heuristic_difficulty(performance_data)]
             ELSE [raised |-> FALSE,
                   value |-> PyMax(Q(1, 1), PyMin(Q(10, 1), predicted.value))]

\* a faulty predict_difficulty: no except clause around the trained path
predict_without_except(trained, sc, regressor, performance_data) ==
    IF ~trained
    THEN [raised |-> FALSE, value |-> calculate_heuristic_difficulty(performance_data)]
    ELSE LET features == extract_features(performance_data)
             features_scaled == scaler_transform(sc, features)
             predicted == model_predict(regressor, features_scaled.value)
         IN  IF features_scaled.raised \/ predicted.raised
             THEN [raised |-> TRUE, value |-> Q(0, 1)]
             ELSE [raised |-> FALSE,
                   value |-> PyMax(Q(1, 1), PyMin(Q(10, 1), predicted.value))]

\* predict_difficulty on a predictor in state (trained, sc, regressor)
predict_difficulty(trained, sc, regressor, performance_data) ==
    IF ~trained
    THEN [raised |-> FALSE, value |-> calculate_heuristic_difficulty(performance_data)]
    ELSE LET features == extract_features(performance_data)
             features_scaled == scaler_transform(sc, features)
             predicted == model_predict(regressor, features_scaled.value)
         IN  IF features_scaled.raised \/ predicted.raised
             THEN \* except Exception: the heuristic
                  [raised |-> FALSE,
                   value |-> calculate_heuristic_difficulty(performance_data)]
             ELSE [raised |-> FALSE,
                   value |-> PyMax(Q(1, 1), PyMin(Q(10, 1), predicted.value))]

\* a faulty get_model_info: the regressor's estimator count whatever the flag
model_info_counts_untrained(trained, regressor) ==
    [is_trained |-> trained,
     n_estimators |-> regressor.n_estimators,
     feature_count |-> 5]

\* get_model_info
get_model_info(trained, regressor) ==
    [is_trained |-> trained,
     n_estimators |-> IF trained THEN regressor.n_estimators ELSE 0,
     feature_count |-> 5]

\* update_model: True or False, no state change
update_model(trained, sc, new_data) ==
    IF ~trained THEN FALSE
    ELSE ~scaler_transform(sc, extract_features(new_data)).raised

\* a faulty save_model: the scaler is left out of the blob
save_model_without_scaler(regressor, sc, trained) ==
    [exists |-> TRUE, model |-> regressor, scaler |-> NewScaler,
     is_trained |-> trained]

\* the blob save_model dumps
save_model(regressor, sc, trained) ==
    [exists |-> TRUE, model |-> regressor, scaler |-> sc, is_trained |-> trained]

(***************************************************************************)
(* Inputs of the predictor's operations                                    *)
(***************************************************************************)

\* the largest batch size tried
MaxSamples == 10

\* accuracies below, at and above the heuristic's two thresholds
AccuracyInputs == {Q(39, 100), Q(2, 5), Q(1, 2), Q(4, 5), Q(81, 100)}

\* difficulties inside [1, 10], within 0.5 of either end, and outside it
\* (update_difficulty stores any float, student_tracker.py line 288)
DifficultyInputs ==
    {Q(1, 5), Q(1, 1), Q(6, 5), Q(49, 5), Q(10, 1), Q(15, 1)}

Snapshot(accuracy, current_difficulty) ==
    [accuracy |-> accuracy, current_difficulty |-> current_difficulty,
     avg_response_time |-> Q(15, 1), avg_attempts |-> Q(1, 1),
     recent_accuracy |-> accuracy]

\* the dicts handed to predict_difficulty: snapshots, snapshots with an
\* infinite value, dicts that lack keys
PerformanceInputs ==
    {Snapshot(a, d) : a \in AccuracyInputs, d \in DifficultyInputs}
    \cup {Snapshot(a, Inf) : a \in {Q(1, 2), Q(81, 100)}}
    \cup {[accuracy |-> Q(81, 100)], [current_difficulty |-> Q(49, 5)]}

\* the dicts handed to update_model
UpdateInputs == {Snapshot(Q(1, 2), Q(5, 1)), Snapshot(Q(1, 2), Inf)}

Labeled(performance, optimal_difficulty) ==
    [accuracy |-> performance.accuracy,
     current_difficulty |-> performance.current_difficulty,
     avg_response_time |-> performance.avg_response_time,
     avg_attempts |-> performance.avg_attempts,
     recent_accuracy |-> performance.recent_accuracy,
     optimal_difficulty |-> optimal_difficulty]

\* the samples a batch is made of: labels inside and outside [1, 10], a
\* sample without a label, one with an infinite feature, one with an
\* infinite label
TrainingSamples ==
    {Labeled(Snapshot(Q(1, 1), Q(10, 1)), Q(12, 1)),
     Labeled(Snapshot(Q(0, 1), Q(1, 1)), Q(1, 2)),
     Snapshot(Q(4, 5), Q(3, 1)),
     Labeled(Snapshot(Q(1, 2), Inf), Q(5, 1)),
     Labeled(Snapshot(Q(1, 2), Q(2, 1)), Inf)}

\* an empty batch, one sample too few, just enough, the largest
TrainingSizes == {0, MinSamples - 1, MinSamples, MaxSamples}

TrainingInputs == [n : TrainingSizes, sample : TrainingSamples]

NoTraining == [n |-> 0, sample |-> Snapshot(Q(1, 2), Q(1, 1))]

(***************************************************************************)
(* AdaptiveQuizModel: operations.  Every operation but train_model runs as *)
(* one step.  train_model changes self.scaler (line 126), self.model (line *)
(* 130) and self.is_trained (line 140) one after the other, and the        *)
(* server's other request threads run between these lines: it is three     *)
(* steps.  __init__ is two steps, the second its call of load_model; no    *)
(* other operation runs on the predictor between them.                     *)
(***************************************************************************)

\* nothing fitted yet by a running train_model
NoBefore == [scaler |-> NewScaler, model |-> NewModel]

\* AdaptiveQuizModel() in a new process, lines 17-27
Construct ==
    /\ UNCHANGED tvars
    /\ train_pc = "idle"
    /\ init_pc = "done"
    /\ model' = NewModel
    /\ scaler' = NewScaler
    /\ is_trained' = FALSE
    /\ init_pc' = IF model_file.exists THEN "load" ELSE "done"
    /\ last' = [op |-> "init", arg |-> model_file.exists, result |-> TRUE]
    /\ UNCHANGED <<model_file, train_pc, train_data, train_before>>

\* load_model(), called by __init__ (line 28) and by nothing else
LoadModel ==
    /\ UNCHANGED tvars
    /\ init_pc = "load"
    /\ IF model_file.exists
       THEN /\ model' = model_file.model
            /\ scaler' = model_file.scaler
            /\ is_trained' = model_file.is_trained
       ELSE \* joblib.load raises, line 173: return False
            UNCHANGED <<model, scaler, is_trained>>
    /\ init_pc' = "done"
    /\ last' = [op |-> "load_model", arg |-> init_pc,
                result |-> model_file.exists]
    /\ UNCHANGED <<model_file, train_pc, train_data, train_before>>

\* extract_features(performance_data), called on its own
ExtractFeatures(performance_data) ==
    /\ init_pc = "done"
    /\ last' = [op |-> "extract_features", arg |-> performance_data,
                result |-> extract_features(performance_data)]
    /\ UNCHANGED pvars
    /\ UNCHANGED tvars

\* predict_difficulty(performance_data)
PredictDifficulty(performance_data) ==
    /\ init_pc = "done"
    /\ last' = [op |-> "predict_difficulty", arg |-> performance_data,
                result |-> predict_difficulty(is_trained, scaler, model,
                                              performance_data)]
    /\ UNCHANGED pvars
    /\ UNCHANGED tvars

\* a faulty heuristic call: it goes through the predictor's state
HeuristicDifficultyReadsState(performance_data) ==
    /\ init_pc = "done"
    /\ last' = [op |-> "calculate_heuristic_difficulty",
                arg |-> performance_data,
                result |-> predict_difficulty(is_trained, scaler, model,
                                              performance_data).value]
    /\ UNCHANGED pvars
    /\ UNCHANGED tvars

\* _calculate_heuristic_difficulty(performance_data), called on its own
HeuristicDifficulty(performance_data) ==
    /\ init_pc = "done"
    /\ last' = [op |-> "calculate_heuristic_difficulty",
                arg |-> performance_data,
                result |-> calculate_heuristic_difficulty(performance_data)]
    /\ UNCHANGED pvars
    /\ UNCHANGED tvars

\* get_model_info()
GetModelInfo ==
    /\ init_pc = "done"
    /\ last' = [op |-> "get_model_info", arg |-> TRUE,
                result |-> get_model_info(is_trained, model)]
    /\ UNCHANGED pvars
    /\ UNCHANGED tvars

\* update_model(new_data)
UpdateModel(new_data) ==
    /\ init_pc = "done"
    /\ last' = [op |-> "update_model", arg |-> new_data,
                result |-> update_model(is_trained, scaler, new_data)]
    /\ UNCHANGED pvars
    /\ UNCHANGED tvars

\* a faulty size check: only the empty batch is refused
InsufficientDataEmptyOnly(training_data) == training_data.n = 0

\* line 103: not training_data or len(training_data) < 10
InsufficientData(training_data) ==
    training_data.n = 0 \/ training_data.n < MinSamples

\* train_model(training_data), lines 103-126: the size check, the features,
\* the split and the scaler's fit
TrainModel(training_data) ==
    /\ UNCHANGED tvars
    /\ init_pc = "done"
    /\ train_pc = "idle"
    /\ IF InsufficientData(training_data)
       THEN \* line 105: return False
            /\ last' = [op |-> "train_model", arg |-> training_data,
                        result |-> FALSE]
            /\ UNCHANGED pvars
       ELSE IF ~AllFinite(TrainingRow(training_data))
       THEN \* line 126 raises ValueError: StandardScaler.fit has reset the
            \* scaler before it validates X, or left it as it was
            /\ scaler' \in {scaler, NewScaler}
            /\ last' = [op |-> "train_model", arg |-> training_data,
                        result |-> FALSE]
            /\ UNCHANGED <<is_trained, model, model_file, train_pc, train_data,
                           train_before, init_pc>>
       ELSE /\ scaler' = FitScaler(training_data)
            /\ train_pc' = "fit"
            /\ train_data' = training_data
            /\ train_before' = [scaler |-> scaler, model |-> model]
            /\ last' = [op |-> "train_model.scaler", arg |-> training_data,
                        result |-> TRUE]
            /\ UNCHANGED <<is_trained, model, model_file, init_pc>>

\* a faulty second step: the flag is set before the regressor's fit
TrainFitSetsFlag ==
    /\ UNCHANGED tvars
    /\ train_pc = "fit"
    /\ is_trained' = TRUE
    /\ IF ~IsFinite(TrainingLabel(train_data))
       THEN /\ last' = [op |-> "train_model", arg |-> train_data,
                        result |-> FALSE]
            /\ train_pc' = "idle"
            /\ train_data' = NoTraining
            /\ train_before' = NoBefore
            /\ UNCHANGED <<scaler, model, model_file, init_pc>>
       ELSE /\ model' = FitModel(model, train_data)
            /\ train_pc' = "flag"
            /\ last' = [op |-> "train_model.fit", arg |-> train_data,
                        result |-> TRUE]
            /\ UNCHANGED <<scaler, model_file, train_data, train_before,
                           init_pc>>

\* train_model, lines 127-138: the regressor's fit and its scores
TrainFit ==
    /\ UNCHANGED tvars
    /\ train_pc = "fit"
    /\ IF ~IsFinite(TrainingLabel(train_data))
       THEN \* line 130 raises ValueError; line 146: return False
            /\ last' = [op |-> "train_model", arg |-> train_data,
                        result |-> FALSE]
            /\ train_pc' = "idle"
            /\ train_data' = NoTraining
            /\ train_before' = NoBefore
            /\ UNCHANGED <<is_trained, scaler, model, model_file, init_pc>>
       ELSE /\ model' = FitModel(model, train_data)
            /\ train_pc' = "flag"
            /\ last' = [op |-> "train_model.fit", arg |-> train_data,
                        result |-> TRUE]
            /\ UNCHANGED <<is_trained, scaler, model_file, train_data,
                           train_before, init_pc>>

\* a faulty last step: the model is saved and True returned, the flag is
\* left as it was
TrainFlagNotSet ==
    /\ UNCHANGED tvars
    /\ train_pc = "flag"
    /\ model_file' = save_model(model, scaler, is_trained)
    /\ last' = [op |-> "train_model", arg |-> train_data, result |-> TRUE]
    /\ train_pc' = "idle"
    /\ train_data' = NoTraining
    /\ train_before' = NoBefore
    /\ UNCHANGED <<is_trained, scaler, model, init_pc>>

\* train_model, lines 140-142: the flag, save_model, return True
TrainFlag ==
    /\ UNCHANGED tvars
    /\ train_pc = "flag"
    /\ is_trained' = TRUE
    /\ model_file' = save_model(model, scaler, TRUE)
    /\ last' = [op |-> "train_model", arg |-> train_data, result |-> TRUE]
    /\ train_pc' = "idle"
    /\ train_data' = NoTraining
    /\ train_before' = NoBefore
    /\ UNCHANGED <<scaler, model, init_pc>>

NextModel ==
    \/ Construct
    \/ LoadModel
    \/ \E performance_data \in PerformanceInputs :
           ExtractFeatures(performance_data)
    \/ \E performance_data \in PerformanceInputs :
           PredictDifficulty(performance_data)
    \/ \E performance_data \in PerformanceInputs :
           HeuristicDifficulty(performance_data)
    \/ GetModelInfo
    \/ \E new_data \in UpdateInputs : UpdateModel(new_data)
    \/ \E training_data \in TrainingInputs : TrainModel(training_data)
    \/ TrainFit
    \/ TrainFlag

(***************************************************************************)
(* StudentTracker.  A student record keeps the fields the operations read  *)
(* or write; name, grade and favorite_state are set once by create_student *)
(* and only copied afterwards, and are left out.  A history record keeps   *)
(* question_id, difficulty, response_time, is_correct, attempts and state; *)
(* its timestamp is read only by the analytics reports.  Dates are day     *)
(* numbers: the code compares the strings strftime('%Y-%m-%d') gives.      *)
(***************************************************************************)

\* Keep only last 100 records (lines 181-182)
HistoryCap == 100

\* the last calendar date reached
MaxDay == 2

\* the most attempts recorded for one student
MaxQuestions == 2

\* history[-k:] of a list, k >= 1
LastK(history, k) ==
    IF Len(history) <= k THEN history
    ELSE SubSeq(history, Len(history) - k + 1, Len(history))

RECURSIVE SumAttempts(_)
SumAttempts(history) ==
    IF history = << >> THEN 0
    ELSE Head(history).attempts + SumAttempts(Tail(history))

RECURSIVE CountCorrect(_)
CountCorrect(history) ==
    IF history = << >> THEN 0
    ELSE (IF Head(history).is_correct THEN 1 ELSE 0) + CountCorrect(Tail(history))

\* the student create_student stores (lines 96-108)
NewStudent(date) ==
    [current_difficulty |-> Q(1, 1),
     total_questions |-> 0,
     correct_answers |-> 0,
     total_attempts |-> 0,
     avg_response_time |-> Q(0, 1),
     last_quiz_date |-> date,
     streak_days |-> 0,
     states_visited |-> << >>]

\* Text.  A str is the sequence of its pieces: the runs of characters
\* between its '|' characters, with the piece "|" for each '|'.  "Kerala"
\* is <<"Kerala">>, "" (and state=None, which the code treats alike) is << >>.

\* '|'.join(names), line 80
RECURSIVE JoinStates(_)
JoinStates(names) ==
    IF names = << >> THEN << >>
    ELSE IF Len(names) = 1 THEN names[1]
    ELSE names[1] \o <<"|">> \o JoinStates(Tail(names))

\* text.split('|')
RECURSIVE SplitStates(_)
SplitStates(text) ==
    IF \A i \in DOMAIN text : text[i] # "|" THEN <<text>>
    ELSE LET i == CHOOSE k \in DOMAIN text :
                      /\ text[k] = "|"
                      /\ \A j \in 1..(k - 1) : text[j] # "|"
         IN  <<SubSeq(text, 1, i - 1)>>
                 \o SplitStates(SubSeq(text, i + 1, Len(text)))

\* the CSV row writer.writerow gets for a student (lines 68-81): str() of
\* a float or an int, which float() or int() reads back to the same value,
\* and the joined state names
WriteRow(student) ==
    [current_difficulty |-> student.current_difficulty,
     total_questions |-> student.total_questions,
     correct_answers |-> student.correct_answers,
     total_attempts |-> student.total_attempts,
     avg_response_time |-> student.avg_response_time,
     last_quiz_date |-> student.last_quiz_date,
     streak_days |-> student.streak_days,
     states_visited |-> JoinStates(student.states_visited)]

\* the student load_students builds from a row (lines 31-43)
ReadRow(row) ==
    [current_difficulty |-> row.current_difficulty,
     total_questions |-> row.total_questions,
     correct_answers |-> row.correct_answers,
     total_attempts |-> row.total_attempts,
     avg_response_time |-> row.avg_response_time,
     last_quiz_date |-> row.last_quiz_date,
     streak_days |-> row.streak_days,
     states_visited |->
         IF row.states_visited = << >> THEN << >>
         ELSE SplitStates(row.states_visited)]

\* save_students: the file's rows, one per student
save_students(studs) == [sid \in DOMAIN studs |-> WriteRow(studs[sid])]

\* load_students: the students of the file's rows
load_students(rows) == [sid \in DOMAIN rows |-> ReadRow(rows[sid])]

\* a faulty streak: a second attempt on the same date counts one more day
UpdateStreakCountsSameDay(student, date) ==
    IF student.last_quiz_date = date THEN student.streak_days + 1
    ELSE IF student.last_quiz_date = date - 1 THEN student.streak_days + 1
    ELSE 1

\* the streak after an attempt on date `date` (lines 147-156)
UpdateStreak(student, date) ==
    IF student.last_quiz_date = date THEN student.streak_days
    ELSE IF student.last_quiz_date = date - 1 THEN student.streak_days + 1
    ELSE 1

\* a faulty record_quiz_attempt: the weights of the old average and of the
\* new response time are swapped
RecordedStudentSwappedWeights(student, response_time, is_correct, attempts, state, date) ==
    LET total_questions == student.total_questions + 1
    IN  [current_difficulty |-> student.current_difficulty,
         total_questions |-> total_questions,
         correct_answers |->
             student.correct_answers + (IF is_correct THEN 1 ELSE 0),
         total_attempts |-> student.total_attempts + attempts,
         avg_response_time |->
             IF total_questions = 1 THEN response_time
             ELSE Add(Mul(Q(3, 10), student.avg_response_time),
                      Mul(Q(7, 10), response_time)),
         last_quiz_date |-> date,
         streak_days |-> UpdateStreak(student, date),
         states_visited |->
             IF state # << >> /\ \A i \in DOMAIN student.states_visited :
                                 student.states_visited[i] # state
             THEN Append(student.states_visited, state)
             ELSE student.states_visited]

\* a faulty record_quiz_attempt: every call counts as one attempt
RecordedStudentOneAttempt(student, response_time, is_correct, attempts, state, date) ==
    LET total_questions == student.total_questions + 1
    IN  [current_difficulty |-> student.current_difficulty,
         total_questions |-> total_questions,
         correct_answers |->
             student.correct_answers + (IF is_correct THEN 1 ELSE 0),
         total_attempts |-> student.total_attempts + 1,
         avg_response_time |->
             IF total_questions = 1 THEN response_time
             ELSE Add(Mul(Q(7, 10), student.avg_response_time),
                      Mul(Q(3, 10), response_time)),
         last_quiz_date |-> date,
         streak_days |-> UpdateStreak(student, date),
         states_visited |->
             IF state # << >> /\ \A i \in DOMAIN student.states_visited :
                                 student.states_visited[i] # state
             THEN Append(student.states_visited, state)
             ELSE student.states_visited]

\* a faulty record_quiz_attempt: current_difficulty becomes the difficulty
\* a new student starts with
RecordedStudentResetsDifficulty(student, response_time, is_correct, attempts, state, date) ==
    LET total_questions == student.total_questions + 1
    IN  [current_difficulty |-> Q(1, 1),
         total_questions |-> total_questions,
         correct_answers |->
             student.correct_answers + (IF is_correct THEN 1 ELSE 0),
         total_attempts |-> student.total_attempts + attempts,
         avg_response_time |->
             IF total_questions = 1 THEN response_time
             ELSE Add(Mul(Q(7, 10), student.avg_response_time),
                      Mul(Q(3, 10), response_time)),
         last_quiz_date |-> date,
         streak_days |-> UpdateStreak(student, date),
         states_visited |->
             IF state # << >> /\ \A i \in DOMAIN student.states_visited :
                                 student.states_visited[i] # state
             THEN Append(student.states_visited, state)
             ELSE student.states_visited]

\* a faulty record_quiz_attempt: only correct answers count as questions
RecordedStudentCountsCorrectOnly(student, response_time, is_correct, attempts, state, date) ==
    LET total_questions ==
            student.total_questions + (IF is_correct THEN 1 ELSE 0)
    IN  [current_difficulty |-> student.current_difficulty,
         total_questions |-> total_questions,
         correct_answers |->
             student.correct_answers + (IF is_correct THEN 1 ELSE 0),
         total_attempts |-> student.total_attempts + attempts,
         avg_response_time |->
             IF total_questions = 1 THEN response_time
             ELSE Add(Mul(Q(7, 10), student.avg_response_time),
                      Mul(Q(3, 10), response_time)),
         last_quiz_date |-> date,
         streak_days |-> UpdateStreak(student, date),
         states_visited |->
             IF state # << >> /\ \A i \in DOMAIN student.states_visited :
                                 student.states_visited[i] # state
             THEN Append(student.states_visited, state)
             ELSE student.states_visited]

\* the student after record_quiz_attempt's lines 129-162
RecordedStudent(student, response_time, is_correct, attempts, state, date) ==
    LET total_questions == student.total_questions + 1
    IN  [current_difficulty |-> student.current_difficulty,
         total_questions |-> total_questions,
         correct_answers |->
             student.correct_answers + (IF is_correct THEN 1 ELSE 0),
         total_attempts |-> student.total_attempts + attempts,
         avg_response_time |->
             IF total_questions = 1 THEN response_time
             ELSE Add(Mul(Q(7, 10), student.avg_response_time),
                      Mul(Q(3, 10), response_time)),
         last_quiz_date |-> date,
         streak_days |-> UpdateStreak(student, date),
         states_visited |->
             IF state # << >> /\ \A i \in DOMAIN student.states_visited :
                                 student.states_visited[i] # state
             THEN Append(student.states_visited, state)
             ELSE student.states_visited]

\* a faulty record_quiz_attempt: the log is never cut
RecordedHistoryKeepsAll(history, question_id, difficulty, response_time, is_correct, attempts, state) ==
    Append(history,
           [question_id |-> question_id, difficulty |-> difficulty,
            response_time |-> response_time, is_correct |-> is_correct,
            attempts |-> attempts, state |-> state])

\* the history after lines 165-182
RecordedHistory(history, question_id, difficulty, response_time, is_correct, attempts, state) ==
    LET appended ==
            Append(history,
                   [question_id |-> question_id, difficulty |-> difficulty,
                    response_time |-> response_time, is_correct |-> is_correct,
                    attempts |-> attempts, state |-> state])
    IN  IF Len(appended) > HistoryCap THEN LastK(appended, HistoryCap)
        ELSE appended

\* self.performance_history.get(student_id, [])
HistoryOf(histories, student_id) ==
    IF student_id \in DOMAIN histories THEN histories[student_id] ELSE << >>

\* a faulty get_student_performance: without history it computes the
\* accuracies from the counters in place of the 0.5 defaults
performance_without_defaults(studs, histories, student_id) ==
    IF student_id \notin DOMAIN studs
    THEN [found |-> FALSE]
    ELSE LET student == studs[student_id]
             counted ==
                 Q(student.correct_answers,
                   IF student.total_questions > 1
                   THEN student.total_questions ELSE 1)
         IN  [found |-> TRUE,
              data |->
                [student_id |-> student_id,
                 current_difficulty |-> student.current_difficulty,
                 accuracy |-> counted,
                 avg_response_time |-> student.avg_response_time,
                 avg_attempts |-> Q(1, 1),
                 recent_accuracy |-> counted,
                 total_questions |-> student.total_questions,
                 states_visited_count |-> Len(student.states_visited)]]

\* a faulty get_student_performance: an unknown student gets the dict of a
\* new student in place of None
performance_of_unknown_student(studs, histories, student_id) ==
    LET student == IF student_id \in DOMAIN studs THEN studs[student_id]
                   ELSE NewStudent(0)
        history == HistoryOf(histories, student_id)
        recent_history ==
            IF Len(history) >= 10 THEN LastK(history, 10) ELSE history
    IN  IF history = << >>
        THEN [found |-> TRUE,
              data |->
                [student_id |-> student_id,
                 current_difficulty |-> student.current_difficulty,
                 accuracy |-> Q(1, 2),
                 avg_response_time |-> student.avg_response_time,
                 avg_attempts |-> Q(1, 1),
                 recent_accuracy |-> Q(1, 2),
                 total_questions |-> student.total_questions,
                 states_visited_count |-> Len(student.states_visited)]]
        ELSE [found |-> TRUE,
              data |->
                [student_id |-> student_id,
                 current_difficulty |-> student.current_difficulty,
                 accuracy |->
                     Q(student.correct_answers,
                       IF student.total_questions > 1
                       THEN student.total_questions ELSE 1),
                 avg_response_time |-> student.avg_response_time,
                 avg_attempts |-> Q(SumAttempts(history), Len(history)),
                 recent_accuracy |->
                     Q(CountCorrect(recent_history), Len(recent_history)),
                 total_questions |-> student.total_questions,
                 streak_days |-> student.streak_days,
                 states_visited_count |-> Len(student.states_visited)]]

\* a faulty get_student_performance: recent_accuracy over the whole log
performance_recent_over_whole_log(studs, histories, student_id) ==
    IF student_id \notin DOMAIN studs
    THEN [found |-> FALSE]
    ELSE LET student == studs[student_id]
             history == HistoryOf(histories, student_id)
             recent_history ==
                 IF Len(history) >= 10 THEN LastK(history, 10) ELSE history
         IN  IF history = << >>
             THEN [found |-> TRUE,
                   data |->
                     [student_id |-> student_id,
                      current_difficulty |-> student.current_difficulty,
                      accuracy |-> Q(1, 2),
                      avg_response_time |-> student.avg_response_time,
                      avg_attempts |-> Q(1, 1),
                      recent_accuracy |-> Q(1, 2),
                      total_questions |-> student.total_questions,
                      states_visited_count |-> Len(student.states_visited)]]
             ELSE [found |-> TRUE,
                   data |->
                     [student_id |-> student_id,
                      current_difficulty |-> student.current_difficulty,
                      accuracy |->
                          Q(student.correct_answers,
                            IF student.total_questions > 1
                            THEN student.total_questions ELSE 1),
                      avg_response_time |-> student.avg_response_time,
                      avg_attempts |-> Q(SumAttempts(history), Len(history)),
                      recent_accuracy |->
                          Q(CountCorrect(history), Len(history)),
                      total_questions |-> student.total_questions,
                      streak_days |-> student.streak_days,
                      states_visited_count |-> Len(student.states_visited)]]

\* a faulty get_student_performance: avg_attempts over the last 10 records
performance_attempts_over_recent(studs, histories, student_id) ==
    IF student_id \notin DOMAIN studs
    THEN [found |-> FALSE]
    ELSE LET student == studs[student_id]
             history == HistoryOf(histories, student_id)
             recent_history ==
                 IF Len(history) >= 10 THEN LastK(history, 10) ELSE history
         IN  IF history = << >>
             THEN [found |-> TRUE,
                   data |->
                     [student_id |-> student_id,
                      current_difficulty |-> student.current_difficulty,
                      accuracy |-> Q(1, 2),
                      avg_response_time |-> student.avg_response_time,
                      avg_attempts |-> Q(1, 1),
                      recent_accuracy |-> Q(1, 2),
                      total_questions |-> student.total_questions,
                      states_visited_count |-> Len(student.states_visited)]]
             ELSE [found |-> TRUE,
                   data |->
                     [student_id |-> student_id,
                      current_difficulty |-> student.current_difficulty,
                      accuracy |->
                          Q(student.correct_answers,
                            IF student.total_questions > 1
                            THEN student.total_questions ELSE 1),
                      avg_response_time |-> student.avg_response_time,
                      avg_attempts |-> Q(SumAttempts(recent_history), Len(recent_history)),
                      recent_accuracy |->
                          Q(CountCorrect(recent_history), Len(recent_history)),
                      total_questions |-> student.total_questions,
                      streak_days |-> student.streak_days,
                      states_visited_count |-> Len(student.states_visited)]]

\* get_student_performance: None, or the dict
get_student_performance(studs, histories, student_id) ==
    IF student_id \notin DOMAIN studs
    THEN [found |-> FALSE]
    ELSE LET student == studs[student_id]
             history == HistoryOf(histories, student_id)
             recent_history ==
                 IF Len(history) >= 10 THEN LastK(history, 10) ELSE history
         IN  IF history = << >>
             THEN [found |-> TRUE,
                   data |->
                     [student_id |-> student_id,
                      current_difficulty |-> student.current_difficulty,
                      accuracy |-> Q(1, 2),
                      avg_response_time |-> student.avg_response_time,
                      avg_attempts |-> Q(1, 1),
                      recent_accuracy |-> Q(1, 2),
                      total_questions |-> student.total_questions,
                      states_visited_count |-> Len(student.states_visited)]]
             ELSE [found |-> TRUE,
                   data |->
                     [student_id |-> student_id,
                      current_difficulty |-> student.current_difficulty,
                      accuracy |->
                          Q(student.correct_answers,
                            IF student.total_questions > 1
                            THEN student.total_questions ELSE 1),
                      avg_response_time |-> student.avg_response_time,
                      avg_attempts |-> Q(SumAttempts(history), Len(history)),
                      recent_accuracy |->
                          Q(CountCorrect(recent_history), Len(recent_history)),
                      total_questions |-> student.total_questions,
                      streak_days |-> student.streak_days,
                      states_visited_count |-> Len(student.states_visited)]]

(***************************************************************************)
(* StudentTracker: operations                                              *)
(***************************************************************************)

\* StudentTracker() in a new process: empty dicts, then load_students
NewTracker ==
    /\ UNCHANGED pvars
    /\ students' = load_students(students_file)
    /\ performance_history' = [sid \in DOMAIN students_file |-> << >>]
    /\ last' = [op |-> "tracker_init", arg |-> TRUE, result |-> TRUE]
    /\ UNCHANGED <<students_file, today>>

\* create_student(student_id, ...)
CreateStudent(student_id) ==
    /\ UNCHANGED pvars
    /\ IF student_id \in DOMAIN students
       THEN /\ last' = [op |-> "create_student", arg |-> student_id,
                        result |-> FALSE]
            /\ UNCHANGED tvars
       ELSE LET created ==
                    [sid \in DOMAIN students \cup {student_id} |->
                        IF sid = student_id THEN NewStudent(today)
                        ELSE students[sid]]
            IN  /\ students' = created
                /\ performance_history' =
                       [sid \in DOMAIN performance_history \cup {student_id} |->
                           IF sid = student_id THEN << >>
                           ELSE performance_history[sid]]
                /\ students_file' = save_students(created)
                /\ last' = [op |-> "create_student", arg |-> student_id,
                            result |-> TRUE]
                /\ UNCHANGED today

\* the arguments of a record_quiz_attempt call
AttemptArg(student_id, question_id, difficulty, response_time, is_correct, attempts, state) ==
    [student_id |-> student_id, question_id |-> question_id,
     difficulty |-> difficulty, response_time |-> response_time,
     is_correct |-> is_correct, attempts |-> attempts, state |-> state]

\* a faulty record_quiz_attempt: an unknown student is created on the fly
RecordQuizAttemptCreatesStudent(student_id, question_id, difficulty, response_time, is_correct, attempts, state) ==
    /\ UNCHANGED pvars
    /\ LET known ==
               [sid \in DOMAIN students \cup {student_id} |->
                   IF sid \in DOMAIN students THEN students[sid]
                   ELSE NewStudent(today)]
           recorded ==
               [known EXCEPT ![student_id] =
                   RecordedStudent(known[student_id], response_time,
                                   is_correct, attempts, state, today)]
       IN  /\ students' = recorded
           /\ performance_history' =
                  [sid \in DOMAIN performance_history \cup {student_id} |->
                      IF sid = student_id
                      THEN RecordedHistory(
                               HistoryOf(performance_history, student_id),
                               question_id, difficulty, response_time,
                               is_correct, attempts, state)
                      ELSE performance_history[sid]]
           /\ students_file' = save_students(recorded)
           /\ last' = [op |-> "record_quiz_attempt",
                       arg |-> AttemptArg(student_id, question_id,
                                          difficulty, response_time,
                                          is_correct, attempts, state),
                       result |-> TRUE]
           /\ UNCHANGED today

\* record_quiz_attempt(student_id, question_id, difficulty, response_time,
\*                     is_correct, attempts, state)
RecordQuizAttempt(student_id, question_id, difficulty, response_time, is_correct, attempts, state) ==
    /\ UNCHANGED pvars
    /\ IF student_id \notin DOMAIN students
       THEN /\ last' = [op |-> "record_quiz_attempt",
                        arg |-> AttemptArg(student_id, question_id, difficulty,
                                           response_time, is_correct, attempts,
                                           state),
                        result |-> FALSE]
            /\ UNCHANGED tvars
       ELSE LET recorded ==
                    [students EXCEPT ![student_id] =
                        RecordedStudent(students[student_id], response_time,
                                        is_correct, attempts, state, today)]
            IN  /\ students' = recorded
                /\ performance_history' =
                       [sid \in DOMAIN performance_history \cup {student_id} |->
                           IF sid = student_id
                           THEN RecordedHistory(
                                    HistoryOf(performance_history, student_id),
                                    question_id, difficulty, response_time,
                                    is_correct, attempts, state)
                           ELSE performance_history[sid]]
                /\ students_file' = save_students(recorded)
                /\ last' = [op |-> "record_quiz_attempt",
                            arg |-> AttemptArg(student_id, question_id,
                                               difficulty, response_time,
                                               is_correct, attempts, state),
                            result |-> TRUE]
                /\ UNCHANGED today

\* get_student_performance(student_id)
GetStudentPerformance(student_id) ==
    /\ UNCHANGED pvars
    /\ last' = [op |-> "get_student_performance", arg |-> student_id,
                result |-> get_student_performance(students,
                                                   performance_history,
                                                   student_id)]
    /\ UNCHANGED tvars

\* update_difficulty(student_id, new_difficulty)
UpdateDifficulty(student_id, new_difficulty) ==
    /\ UNCHANGED pvars
    /\ IF student_id \notin DOMAIN students
       THEN /\ last' = [op |-> "update_difficulty",
                        arg |-> [student_id |-> student_id,
                                 new_difficulty |-> new_difficulty],
                        result |-> FALSE]
            /\ UNCHANGED tvars
       ELSE LET updated ==
                    [students EXCEPT
                        ![student_id].current_difficulty = new_difficulty]
            IN  /\ students' = updated
                /\ students_file' = save_students(updated)
                /\ last' = [op |-> "update_difficulty",
                            arg |-> [student_id |-> student_id,
                                     new_difficulty |-> new_difficulty],
                            result |-> TRUE]
                /\ UNCHANGED <<performance_history, today>>

\* midnight: datetime.now() moves to the next calendar date
NextDay ==
    /\ UNCHANGED pvars
    /\ today < MaxDay
    /\ today' = today + 1
    /\ last' = [op |-> "midnight", arg |-> today, result |-> TRUE]
    /\ UNCHANGED <<students, performance_history, students_file>>

(***************************************************************************)
(* Inputs of the tracker's operations                                      *)
(***************************************************************************)

StudentOrder == <<"s1", "s2">>

StudentIds == {StudentOrder[i] : i \in DOMAIN StudentOrder}

\* the attempts recorded: response_time, is_correct, attempts, state
\* (<< >> is state=None)
AttemptInputs ==
    {[response_time |-> Q(15, 1), is_correct |-> TRUE, attempts |-> 1,
      state |-> <<"Kerala">>],
     [response_time |-> Q(25, 1), is_correct |-> FALSE, attempts |-> 2,
      state |-> << >>]}

\* the difficulties update_difficulty is called with: /student/update
\* passes the client's value on (api/app.py line 306)
NewDifficultyInputs == {Q(5, 2), Q(15, 1)}

\* the attempts recorded so far, over all students
RECURSIVE TotalQuestions(_, _)
TotalQuestions(studs, ids) ==
    IF ids = {} THEN 0
    ELSE LET sid == CHOOSE x \in ids : TRUE
         IN  studs[sid].total_questions + TotalQuestions(studs, ids \ {sid})

\* the next question id of a student: the route hands out the ids in order
NextQuestionId(student_id) ==
    IF student_id \in DOMAIN students
    THEN students[student_id].total_questions + 1 ELSE 1

\* students register in the order of StudentOrder; a registered id may be
\* submitted again
Register ==
    \E i \in DOMAIN StudentOrder :
        /\ \A j \in 1..(i - 1) : StudentOrder[j] \in DOMAIN students
        /\ CreateStudent(StudentOrder[i])

RecordAttempt ==
    \E student_id \in StudentIds, a \in AttemptInputs :
        /\ TotalQuestions(students, DOMAIN students) < MaxQuestions
        /\ RecordQuizAttempt(student_id, NextQuestionId(student_id), Q(1, 1),
                             a.response_time, a.is_correct, a.attempts, a.state)

NextTracker ==
    \/ NewTracker
    \/ Register
    \/ RecordAttempt
    \/ \E student_id \in StudentIds : GetStudentPerformance(student_id)
    \/ \E student_id \in StudentIds, d \in NewDifficultyInputs :
           UpdateDifficulty(student_id, d)
    \/ NextDay

(***************************************************************************)
(* Specifications                                                          *)
(***************************************************************************)

\* both objects as app.py builds them at start-up (lines 19 and 21), no files yet
Init ==
    /\ is_trained = FALSE
    /\ scaler = NewScaler
    /\ model = NewModel
    /\ model_file = NoFile
    /\ train_pc = "idle"
    /\ train_data = NoTraining
    /\ train_before = NoBefore
    /\ init_pc = "done"
    /\ students = << >>
    /\ performance_history = << >>
    /\ students_file = << >>
    /\ today = 0
    /\ last = [op |-> "init", arg |-> FALSE, result |-> TRUE]

\* the predictor alone, on the dicts of PerformanceInputs
SpecPredictor == Init /\ [][NextModel]_vars

\* the tracker alone
SpecTracker == Init /\ [][NextTracker]_vars

(***************************************************************************)
(* One student's log.  The recent window is 10 records and the log's cap   *)
(* is 100: the two specifications below record up to 11 attempts that      *)
(* differ in is_correct and attempts, and up to 105 attempts that differ   *)
(* in question_id only.  The response time is the same in every attempt,   *)
(* so avg_response_time stays at it.                                       *)
(***************************************************************************)

\* the attempts recorded for the recent window: one more than it holds
MaxWindowAttempts == 11

\* the attempts recorded for the cap: 5 more than it holds
MaxLogAttempts == 105

\* the student whose log is filled
LogStudent == StudentOrder[1]

WindowInputs ==
    {[response_time |-> Q(15, 1), is_correct |-> TRUE, attempts |-> 1,
      state |-> << >>],
     [response_time |-> Q(15, 1), is_correct |-> FALSE, attempts |-> 2,
      state |-> << >>]}

CreateLogStudent == CreateStudent(LogStudent)

GetLogStudentPerformance == GetStudentPerformance(LogStudent)

RecordInWindow ==
    \E a \in WindowInputs :
        /\ LogStudent \in DOMAIN students
        /\ students[LogStudent].total_questions < MaxWindowAttempts
        /\ RecordQuizAttempt(LogStudent, NextQuestionId(LogStudent), Q(1, 1),
                             a.response_time, a.is_correct, a.attempts, a.state)

RecordInLog ==
    /\ LogStudent \in DOMAIN students
    /\ students[LogStudent].total_questions < MaxLogAttempts
    /\ RecordQuizAttempt(LogStudent, NextQuestionId(LogStudent), Q(1, 1),
                         Q(15, 1), TRUE, 1, <<"Kerala">>)

NextWindow ==
    \/ NewTracker
    \/ CreateLogStudent
    \/ RecordInWindow
    \/ GetLogStudentPerformance

NextLog ==
    \/ CreateLogStudent
    \/ RecordInLog
    \/ GetLogStudentPerformance

\* one student, up to MaxWindowAttempts attempts, the tracker re-created at
\* any time
SpecRecentWindow == Init /\ [][NextWindow]_vars

\* one student, up to MaxLogAttempts attempts in one tracker
SpecHistoryCap == Init /\ [][NextLog]_vars

(***************************************************************************)
(* Properties of the predictor                                             *)
(***************************************************************************)

\* 1.0 <= v <= 10.0
InDifficultyRange(v) ==
    /\ v.den > 0
    /\ v.den <= v.num
    /\ v.num <= 10 * v.den

\* the dict's accuracy and current_difficulty as the code reads them
AccuracyOf(performance_data) ==
    IF "accuracy" \in DOMAIN performance_data
    THEN performance_data.accuracy ELSE Q(1, 2)

DifficultyOf(performance_data) ==
    IF "current_difficulty" \in DOMAIN performance_data
    THEN performance_data.current_difficulty ELSE Q(1, 1)

\* C1: every value predict_difficulty returns, trained or not, lies in
\* [1.0, 10.0].
C1_PredictInRange ==
    last.op = "predict_difficulty" => InDifficultyRange(last.result.value)

\* C2: every value _calculate_heuristic_difficulty returns lies in
\* [1.0, 10.0].
C2_HeuristicInRange ==
    last.op = "calculate_heuristic_difficulty" => InDifficultyRange(last.result)

\* C3: the heuristic returns min(10.0, d + 0.5) when accuracy > 0.8,
\* max(1.0, d - 0.5) when accuracy < 0.4 and d otherwise; accuracy exactly
\* 0.8 or exactly 0.4 returns d.  (d is finite here: inf +- 0.5 is inf.)
C3_HeuristicRule ==
    (last.op = "calculate_heuristic_difficulty"
        /\ IsFinite(DifficultyOf(last.arg))) =>
        LET a == AccuracyOf(last.arg)
            d == DifficultyOf(last.arg)
            \* d + 0.5 and d - 0.5 as fractions over 2 * d.den
            up == Q(2 * d.num + d.den, 2 * d.den)
            down == Q(2 * d.num - d.den, 2 * d.den)
        IN  /\ 5 * a.num > 4 * a.den =>
                last.result = (IF up.num > 10 * up.den THEN Q(10, 1) ELSE up)
            /\ 5 * a.num < 2 * a.den =>
                last.result = (IF down.num < down.den THEN Q(1, 1) ELSE down)
            /\ (5 * a.num <= 4 * a.den /\ 5 * a.num >= 2 * a.den) =>
                last.result = d
            /\ a \in {Q(4, 5), Q(2, 5)} => last.result = d

\* C3's case: the heuristic has run on accuracy exactly 0.8 and on a
\* difficulty the two other branches would have changed.
C3_Witness ==
    /\ last.op = "calculate_heuristic_difficulty"
    /\ AccuracyOf(last.arg) = Q(4, 5)
    /\ DifficultyOf(last.arg) = Q(6, 5)
    /\ last.result = Q(6, 5)

\* C4: on an untrained predictor predict_difficulty returns the heuristic
\* difficulty of the same dict.
C4_UntrainedIsHeuristic ==
    (last.op = "predict_difficulty" /\ ~is_trained) =>
        /\ ~last.result.raised
        /\ last.result.value = calculate_heuristic_difficulty(last.arg)

\* C4's case: an untrained predict whose heuristic raised the difficulty.
C4_Witness ==
    /\ last.op = "predict_difficulty"
    /\ ~is_trained
    /\ AccuracyOf(last.arg) = Q(81, 100)
    /\ last.result.value = Q(17, 10)

\* the trained path raises: the scaler or the regressor is not fitted, or
\* one of the five features is infinite
TrainedPathFails(performance_data) ==
    \/ ~scaler.fitted
    \/ ~model.fitted
    \/ ~IsFinite(AccuracyOf(performance_data))
    \/ ~IsFinite(DifficultyOf(performance_data))
    \/ ("recent_accuracy" \in DOMAIN performance_data
           /\ ~IsFinite(performance_data.recent_accuracy))

TrainOps == {"train_model", "train_model.scaler", "train_model.fit"}

\* C6: train_model with fewer than 10 samples (an empty batch too) returns
\* False in its first step and changes neither the flag, the scaler, the
\* regressor nor the saved file, so get_model_info keeps reporting
\* is_trained False on an untrained predictor.
C6_InsufficientDataNoChange ==
    [][(last'.op \in TrainOps /\ last'.arg.n < 10) =>
          /\ last'.op = "train_model"
          /\ last'.result = FALSE
          /\ UNCHANGED <<is_trained, scaler, model, model_file>>
          /\ ~is_trained => ~get_model_info(is_trained', model').is_trained
      ]_vars

\* C6's case: a call with 9 samples has returned False on an untrained
\* predictor.
C6_Witness ==
    /\ last.op = "train_model"
    /\ last.arg.n = 9
    /\ last.result = FALSE
    /\ ~is_trained

\* a sample train_model can fit: finite features and a finite label
ValidSample(sample) ==
    /\ IsFinite(sample.accuracy)
    /\ IsFinite(sample.current_difficulty)
    /\ IsFinite(sample.recent_accuracy)
    /\ "optimal_difficulty" \in DOMAIN sample => IsFinite(sample.optimal_difficulty)

\* C7: a train_model call with 10 or more valid samples does not return
\* False, and when it has returned, get_model_info reports is_trained True
\* and more than 0 estimators.
C7_TrainSucceeds ==
    (last.op = "train_model" /\ last.arg.n >= 10 /\ ValidSample(last.arg.sample)) =>
        /\ last.result = TRUE
        /\ get_model_info(is_trained, model).is_trained
        /\ get_model_info(is_trained, model).n_estimators > 0

\* C7's case: a call with exactly 10 valid samples has returned True.
C7_Witness ==
    /\ last.op = "train_model"
    /\ last.arg.n = 10
    /\ ValidSample(last.arg.sample)
    /\ last.result = TRUE

\* C8 as claimed: a predictor is untrained when its construction is over,
\* and only a train_model call that returns True changes is_trained (the
\* step "init" makes a new predictor; it changes no flag of the old one).
C8_OnlyTrainChangesFlag ==
    [][/\ (last'.op = "init" /\ init_pc' = "done") => ~is_trained'
       /\ (last'.op = "load_model" /\ last'.arg = "load") => ~is_trained'
       /\ (last'.op # "init" /\ is_trained' # is_trained) =>
              (last'.op = "train_model" /\ last'.result = TRUE)
      ]_vars

\* C8 amended: a predictor is untrained after __init__'s first lines and,
\* when no file is saved at its path, when construction is over; is_trained
\* is changed only by a train_model call that returns True and by a
\* load_model that finds the file, which sets it to the saved flag.
C8_TrainOrLoadChangesFlag ==
    [][/\ last'.op = "init" => ~is_trained'
       /\ (last'.op = "load_model" /\ last'.result = TRUE) =>
              is_trained' = model_file.is_trained
       /\ (last'.op # "init" /\ is_trained' # is_trained) =>
              \/ (last'.op = "train_model" /\ last'.result = TRUE)
              \/ (last'.op = "load_model" /\ last'.result = TRUE)
      ]_vars

\* C8's case: __init__ has loaded a saved model and the new predictor is
\* trained.
C8_Witness ==
    /\ last.op = "load_model"
    /\ last.arg = "load"
    /\ last.result = TRUE
    /\ is_trained

\* C9: a predict_difficulty that runs its trained path while train_model is
\* running uses the scaler and the regressor as they were when train_model
\* was called, or both as this train_model fits them.
C9_PredictSeesOldOrNew ==
    (last.op = "predict_difficulty" /\ is_trained /\ train_pc # "idle") =>
        \/ (scaler = train_before.scaler /\ model = train_before.model)
        \/ (scaler = FitScaler(train_data)
              /\ model = FitModel(train_before.model, train_data))

(***************************************************************************)
(* Properties of the tracker                                               *)
(***************************************************************************)

\* C10: get_student_performance of a student with no attempt recorded
\* (total_questions 0) returns accuracy 0.5, recent_accuracy 0.5,
\* avg_response_time 0.0, avg_attempts 1.0 and total_questions 0, and
\* current_difficulty 1.0 when create_student has just made the student.
C10_ZeroAttemptDefaults ==
    [][\A sid \in StudentIds :
          (/\ last'.op = "get_student_performance"
           /\ last'.arg = sid
           /\ sid \in DOMAIN students
           /\ students[sid].total_questions = 0) =>
              /\ last'.result.found
              /\ last'.result.data.accuracy = Q(1, 2)
              /\ last'.result.data.recent_accuracy = Q(1, 2)
              /\ last'.result.data.avg_response_time = Q(0, 1)
              /\ last'.result.data.avg_attempts = Q(1, 1)
              /\ last'.result.data.total_questions = 0
              /\ (last.op = "create_student" /\ last.arg = sid /\ last.result) =>
                     last'.result.data.current_difficulty = Q(1, 1)
      ]_vars

\* C10's case: the dict of a student without attempts has been returned
\* while another student has attempts recorded.
C10_Witness ==
    /\ last.op = "get_student_performance"
    /\ last.result.found
    /\ students[last.arg].total_questions = 0
    /\ last.result.data.accuracy = Q(1, 2)
    /\ last.result.data.current_difficulty = Q(1, 1)
    /\ \E sid \in DOMAIN students : students[sid].total_questions > 0

\* C11: get_student_performance for an id without a student record returns
\* None (not found) and changes nothing in the tracker: students, histories,
\* file.
C11_UnknownStudentNotFound ==
    [][\A sid \in StudentIds :
          (/\ last'.op = "get_student_performance"
           /\ last'.arg = sid
           /\ sid \notin DOMAIN students) =>
              /\ ~last'.result.found
              /\ UNCHANGED <<students, performance_history, students_file>>
      ]_vars

\* C11's case: None has been returned for an unknown id while another
\* student has a record.
C11_Witness ==
    /\ last.op = "get_student_performance"
    /\ last.arg \notin DOMAIN students
    /\ ~last.result.found
    /\ students # << >>

\* a step is a record_quiz_attempt for sid that returned True
Recorded(sid) ==
    /\ last'.op = "record_quiz_attempt"
    /\ last'.arg.student_id = sid
    /\ last'.result = TRUE

\* C12: the first recorded attempt sets avg_response_time to its
\* response_time, every later one to 0.7 * the old average + 0.3 * its
\* response_time; 15.0 then 25.0 gives 15.0 then 18.0.
C12_ExponentialSmoothing ==
    [][\A sid \in StudentIds :
          Recorded(sid) =>
              LET old == students[sid].avg_response_time
                  rt == last'.arg.response_time
                  new == students'[sid].avg_response_time
              IN  /\ students[sid].total_questions = 0 => new = rt
                  /\ students[sid].total_questions > 0 =>
                         \* new = (7 * old + 3 * rt) / 10
                         new.num * (10 * old.den * rt.den) =
                             new.den * (7 * old.num * rt.den + 3 * rt.num * old.den)
                  /\ (students[sid].total_questions = 1 /\ old = Q(15, 1)
                         /\ rt = Q(25, 1)) => new = Q(18, 1)
      ]_vars

\* C12's case: 15.0 and then 25.0 have been recorded and the average is 18.0.
C12_Witness ==
    /\ last.op = "record_quiz_attempt"
    /\ last.result = TRUE
    /\ students[last.arg.student_id].total_questions = 2
    /\ Len(performance_history[last.arg.student_id]) = 2
    /\ performance_history[last.arg.student_id][1].response_time = Q(15, 1)
    /\ performance_history[last.arg.student_id][2].response_time = Q(25, 1)
    /\ students[last.arg.student_id].avg_response_time = Q(18, 1)

\* C15: a recorded attempt on the date of last_quiz_date leaves streak_days
\* as it is, one on the next calendar date adds 1, one after any other gap
\* sets it to 1; last_quiz_date becomes the attempt's date.
C15_StreakRule ==
    [][\A sid \in StudentIds :
          Recorded(sid) =>
              /\ students[sid].last_quiz_date = today =>
                     students'[sid].streak_days = students[sid].streak_days
              /\ students[sid].last_quiz_date + 1 = today =>
                     students'[sid].streak_days = students[sid].streak_days + 1
              /\ (students[sid].last_quiz_date # today
                     /\ students[sid].last_quiz_date + 1 # today) =>
                     students'[sid].streak_days = 1
              /\ students'[sid].last_quiz_date = today
      ]_vars

\* C15's case: attempts on two consecutive dates have brought the streak to
\* 2, and the date of the last one is stored.
C15_Witness ==
    /\ last.op = "record_quiz_attempt"
    /\ last.result = TRUE
    /\ students[last.arg.student_id].streak_days = 2
    /\ students[last.arg.student_id].last_quiz_date = today

\* C16: a student's first recorded attempt sets streak_days to 1; a second
\* attempt on the next date makes it 2, a second attempt three dates later
\* makes it 1.
C16_FirstAttemptStartsStreak ==
    [][\A sid \in StudentIds :
          Recorded(sid) =>
              /\ students[sid].total_questions = 0 =>
                     students'[sid].streak_days = 1
              /\ (students[sid].total_questions = 1
                     /\ students[sid].last_quiz_date + 1 = today) =>
                     students'[sid].streak_days = 2
              /\ (students[sid].total_questions = 1
                     /\ students[sid].last_quiz_date + 3 = today) =>
                     students'[sid].streak_days = 1
      ]_vars

\* C19: a record_quiz_attempt that returns True adds 1 to total_questions,
\* 1 to correct_answers exactly when is_correct, and its attempts argument
\* to total_attempts.
C19_CountersStep ==
    [][\A sid \in StudentIds :
          Recorded(sid) =>
              /\ students'[sid].total_questions =
                     students[sid].total_questions + 1
              /\ last'.arg.is_correct =>
                     students'[sid].correct_answers =
                         students[sid].correct_answers + 1
              /\ ~last'.arg.is_correct =>
                     students'[sid].correct_answers =
                         students[sid].correct_answers
              /\ students'[sid].total_attempts =
                     students[sid].total_attempts + last'.arg.attempts
      ]_vars

\* C19's case: a wrong answer with 2 attempts has been recorded after a
\* right one.
C19_Witness ==
    /\ last.op = "record_quiz_attempt"
    /\ last.result = TRUE
    /\ ~last.arg.is_correct
    /\ last.arg.attempts = 2
    /\ students[last.arg.student_id].total_questions = 2
    /\ students[last.arg.student_id].correct_answers = 1
    /\ students[last.arg.student_id].total_attempts = 3

\* a step is an update_difficulty for sid
UpdatedDifficulty(sid) ==
    /\ last'.op = "update_difficulty"
    /\ last'.arg.student_id = sid

\* C20: update_difficulty(sid, d) on a student returns True and stores d;
\* on an unknown id it returns False and changes nothing; no other
\* operation on the tracker, record_quiz_attempt included, changes a stored
\* current_difficulty; get_student_performance reports the stored one.
C20_DifficultyKept ==
    [][\A sid \in StudentIds :
          /\ (UpdatedDifficulty(sid) /\ sid \in DOMAIN students) =>
                 /\ last'.result = TRUE
                 /\ students'[sid].current_difficulty = last'.arg.new_difficulty
          /\ (UpdatedDifficulty(sid) /\ sid \notin DOMAIN students) =>
                 /\ last'.result = FALSE
                 /\ UNCHANGED <<students, performance_history, students_file>>
          /\ (sid \in DOMAIN students /\ ~UpdatedDifficulty(sid)) =>
                 /\ sid \in DOMAIN students'
                 /\ students'[sid].current_difficulty =
                        students[sid].current_difficulty
          /\ (last'.op = "get_student_performance" /\ last'.arg = sid
                 /\ sid \in DOMAIN students) =>
                 last'.result.data.current_difficulty =
                     students[sid].current_difficulty
      ]_vars

\* C20's case: the dict reports 2.5 for a student who has an attempt
\* recorded.
C20_Witness ==
    /\ last.op = "get_student_performance"
    /\ last.result.found
    /\ last.result.data.current_difficulty = Q(5, 2)
    /\ last.result.data.total_questions > 0
    /\ performance_history[last.arg] # << >>

\* C18: after one correct attempt of a new student the dict of
\* get_student_performance reports total_questions 1, correct_answers 1,
\* accuracy 1.0 and an avg_response_time above 0.
C18_SnapshotAfterOneCorrect ==
    (/\ last.op = "get_student_performance"
     /\ last.result.found
     /\ students[last.arg].total_questions = 1
     /\ students[last.arg].correct_answers = 1
     /\ Len(performance_history[last.arg]) = 1) =>
        /\ last.result.data.total_questions = 1
        /\ "correct_answers" \in DOMAIN last.result.data
        /\ last.result.data.correct_answers = 1
        /\ last.result.data.accuracy = Q(1, 1)
        /\ last.result.data.avg_response_time.num > 0

\* the log get_student_performance has just read
LastLog == HistoryOf(performance_history, last.arg)

\* the dict of a student has just been returned, from a log with records
ReturnedFromLog ==
    /\ last.op = "get_student_performance"
    /\ last.result.found
    /\ LastLog # << >>

\* C13: recent_accuracy is the fraction of correct records among the last
\* min(10, n) records of the log of n >= 1 records; with 11 records the
\* first one does not count.
C13_RecentWindow ==
    ReturnedFromLog =>
        LET n == Len(LastLog)
            m == IF n < 10 THEN n ELSE 10
            correct == Cardinality({i \in (n - m + 1)..n : LastLog[i].is_correct})
        IN  last.result.data.recent_accuracy.num * m =
                correct * last.result.data.recent_accuracy.den

\* C13's case: 11 records, the first one wrong and the 10 after it right,
\* and a recent_accuracy of 1.0.
C13_Witness ==
    /\ ReturnedFromLog
    /\ Len(LastLog) = 11
    /\ ~LastLog[1].is_correct
    /\ \A i \in 2..11 : LastLog[i].is_correct
    /\ last.result.data.recent_accuracy = Q(1, 1)

C14_LogCap ==
    \A sid \in DOMAIN students :
        LET n == students[sid].total_questions
            log == HistoryOf(performance_history, sid)
        IN  /\ Len(log) <= 100
            /\ Len(log) = (IF n < 100 THEN n ELSE 100)
            /\ \A i \in DOMAIN log : log[i].question_id = n - Len(log) + i

\* C14's case: 105 attempts recorded, 100 records kept, the oldest kept one
\* is the 6th attempt.
C14_Witness ==
    /\ LogStudent \in DOMAIN students
    /\ students[LogStudent].total_questions = 105
    /\ Len(performance_history[LogStudent]) = 100
    /\ performance_history[LogStudent][1].question_id = 6
    /\ performance_history[LogStudent][100].question_id = 105


(***************************************************************************)
(* Properties of the predictor, continued                                  *)
(***************************************************************************)

\* 0.0 <= v <= 1.0
InUnitInterval(v) ==
    /\ v.den > 0
    /\ 0 <= v.num
    /\ v.num <= v.den

\* C21: extract_features returns 5 values and every one of them lies in
\* [0, 1].
C21_FeaturesInUnitInterval ==
    last.op = "extract_features" =>
        /\ Len(last.result) = 5
        /\ \A i \in 1..5 : InUnitInterval(last.result[i])


\* C22: get_model_info changes nothing; it reports feature_count 5, the
\* trained flag as it is, and n_estimators 0 while untrained and 50 once
\* trained.
C22_ModelInfoPure ==
    [][last'.op = "get_model_info" =>
          /\ UNCHANGED <<pvars, tvars>>
          /\ DOMAIN last'.result = {"is_trained", "n_estimators", "feature_count"}
          /\ last'.result.feature_count = 5
          /\ last'.result.is_trained = is_trained
          /\ last'.result.n_estimators = (IF is_trained THEN 50 ELSE 0)]_vars

\* get_model_info on a trained predictor
C22_Witness ==
    /\ last.op = "get_model_info"
    /\ is_trained
    /\ last.result = [is_trained |-> TRUE, n_estimators |-> 50,
                      feature_count |-> 5]

\* the heuristic's value as a function of the two numbers it reads
HeuristicOf(accuracy, current_difficulty) ==
    calculate_heuristic_difficulty(
        [accuracy |-> accuracy, current_difficulty |-> current_difficulty])

C28_FailedTrainNoChange ==
    [][(last'.op = "train_model" /\ last'.result = FALSE) =>
          /\ is_trained' = is_trained
          /\ model_file' = model_file
          /\ model' = (IF train_pc = "idle" THEN model ELSE train_before.model)
          /\ scaler' = (IF train_pc = "idle" THEN scaler
                        ELSE train_before.scaler)]_vars


(***************************************************************************)
(* Properties of the tracker, continued                                    *)
(***************************************************************************)

\* C27: for a student with total_questions > 0, get_student_performance
\* returns accuracy = correct_answers / total_questions, also after the
\* tracker is re-created from the file; 0.5 only when total_questions = 0.
C27_AccuracyFromCounters ==
    (last.op = "get_student_performance" /\ last.result.found) =>
        LET student == students[last.arg]
        IN  last.result.data.accuracy =
                (IF student.total_questions > 0
                 THEN Q(student.correct_answers, student.total_questions)
                 ELSE Q(1, 2))

\* C29: record_quiz_attempt for an unknown id returns False and changes
\* nothing of the tracker; for a known id it leaves every other student's
\* record and log as they were and adds no student.
C29_RecordFrame ==
    [][last'.op = "record_quiz_attempt" =>
          LET sid == last'.arg.student_id
          IN  /\ sid \notin DOMAIN students =>
                     last'.result = FALSE /\ UNCHANGED tvars
              /\ DOMAIN students' = DOMAIN students
              /\ \A other \in DOMAIN students \ {sid} :
                     /\ students'[other] = students[other]
                     /\ students_file'[other] = students_file[other]
                     /\ HistoryOf(performance_history', other) =
                            HistoryOf(performance_history, other)]_vars

\* an attempt for an id that was never created, beside a student who has
\* a record and a log
C29_Witness ==
    /\ last.op = "record_quiz_attempt"
    /\ last.result = FALSE
    /\ last.arg.student_id \notin DOMAIN students
    /\ \E other \in DOMAIN students :
           /\ students[other].total_questions > 0
           /\ HistoryOf(performance_history, other) # << >>

\* C30: 0 <= correct_answers <= total_questions and len(log) <=
\* total_questions for every student, and the two accuracies of
\* get_student_performance lie in [0, 1].
C30_CountersBounded ==
    /\ \A sid \in DOMAIN students :
           /\ 0 <= students[sid].correct_answers
           /\ students[sid].correct_answers <= students[sid].total_questions
           /\ Len(HistoryOf(performance_history, sid))
                  <= students[sid].total_questions
    /\ (last.op = "get_student_performance" /\ last.result.found) =>
           /\ InUnitInterval(last.result.data.accuracy)
           /\ InUnitInterval(last.result.data.recent_accuracy)

\* a snapshot after one wrong and one right answer and an update_difficulty
C30_Witness ==
    /\ last.op = "get_student_performance" /\ last.result.found
    /\ students[last.arg].total_questions = 2
    /\ students[last.arg].correct_answers = 1
    /\ Len(HistoryOf(performance_history, last.arg)) = 2
    /\ students[last.arg].current_difficulty = Q(5, 2)
    /\ last.result.data.accuracy = Q(1, 2)


(***************************************************************************)
(* Malformed attempts.  /quiz/answer hands record_quiz_attempt the         *)
(* client's attempts value and time.time() minus the client's start_time   *)
(* (api/app.py lines 127-147): a start_time in the future gives a negative *)
(* response time.                                                          *)
(***************************************************************************)

\* the most attempts recorded when malformed ones are among them
MaxMalformedAttempts == 3

\* a well-formed attempt, one with a negative response time, one with 0
\* attempts, one with a negative attempt count
MalformedInputs ==
    {[response_time |-> Q(15, 1), is_correct |-> TRUE, attempts |-> 1],
     [response_time |-> Q(-5, 1), is_correct |-> TRUE, attempts |-> 1],
     [response_time |-> Q(15, 1), is_correct |-> TRUE, attempts |-> 0],
     [response_time |-> Q(15, 1), is_correct |-> FALSE, attempts |-> -1]}

RecordMalformed ==
    \E a \in MalformedInputs :
        /\ LogStudent \in DOMAIN students
        /\ students[LogStudent].total_questions < MaxMalformedAttempts
        /\ RecordQuizAttempt(LogStudent, NextQuestionId(LogStudent), Q(1, 1),
                             a.response_time, a.is_correct, a.attempts, << >>)

NextMalformed ==
    \/ CreateLogStudent
    \/ RecordMalformed
    \/ GetLogStudentPerformance

\* one student, up to MaxMalformedAttempts attempts, malformed or not
SpecMalformed == Init /\ [][NextMalformed]_vars

\* response_time < 0 or attempts <= 0
Malformed(attempt) ==
    Lt(attempt.response_time, Q(0, 1)) \/ attempt.attempts <= 0

\* C24: record_quiz_attempt returns False for an attempt with a negative
\* response time or a non-positive attempt count, and leaves the counters,
\* the average response time and the log as they were.
C24_MalformedRejected ==
    [][(last'.op = "record_quiz_attempt" /\ Malformed(last'.arg)) =>
          /\ last'.result = FALSE
          /\ UNCHANGED <<students, performance_history, students_file>>]_vars


(***************************************************************************)
(* The adaptation loop: /quiz/answer (api/app.py, submit_answer) records   *)
(* the attempt, reads the snapshot, asks the predictor and stores the      *)
(* value it returns.  The handler is one step; train_model runs beside it  *)
(* in its three steps.                                                     *)
(***************************************************************************)

\* the most rounds of one student
MaxRounds == 4

\* submit_answer, lines 140-158, after the answer is scored
SubmitAnswer(student_id, question_id, difficulty, response_time, is_correct, attempts, state) ==
    /\ UNCHANGED pvars
    /\ IF student_id \notin DOMAIN students
       THEN \* record_quiz_attempt returns False, the snapshot is None and
            \* predict_difficulty(None) raises: the handler answers 500
            /\ last' = [op |-> "submit_answer",
                        arg |-> AttemptArg(student_id, question_id, difficulty,
                                           response_time, is_correct, attempts,
                                           state),
                        result |-> Inf]
            /\ UNCHANGED tvars
       ELSE LET recorded ==
                    [students EXCEPT ![student_id] =
                        RecordedStudent(students[student_id], response_time,
                                        is_correct, attempts, state, today)]
                histories ==
                    [sid \in DOMAIN performance_history \cup {student_id} |->
                        IF sid = student_id
                        THEN RecordedHistory(
                                 HistoryOf(performance_history, student_id),
                                 question_id, difficulty, response_time,
                                 is_correct, attempts, state)
                        ELSE performance_history[sid]]
                performance ==
                    get_student_performance(recorded, histories, student_id).data
                next_difficulty ==
                    predict_difficulty(is_trained, scaler, model, performance).value
                updated ==
                    [recorded EXCEPT
                        ![student_id].current_difficulty = next_difficulty]
            IN  /\ students' = updated
                /\ performance_history' = histories
                /\ students_file' = save_students(updated)
                /\ last' = [op |-> "submit_answer",
                            arg |-> AttemptArg(student_id, question_id,
                                               difficulty, response_time,
                                               is_correct, attempts, state),
                            result |-> next_difficulty]
                /\ UNCHANGED today

\* a round of the loop's student: a right answer at the first try or a
\* wrong one after two
Round ==
    \E a \in WindowInputs :
        /\ LogStudent \in DOMAIN students =>
               students[LogStudent].total_questions < MaxRounds
        /\ SubmitAnswer(LogStudent, NextQuestionId(LogStudent), Q(1, 1),
                        a.response_time, a.is_correct, a.attempts, a.state)

\* the batches train_model is called with beside the loop: just enough
\* samples of each kind
LoopTrainingInputs == {training_data \in TrainingInputs : training_data.n = MinSamples}

NextLoop ==
    \/ CreateLogStudent
    \/ Round
    \/ \E training_data \in LoopTrainingInputs : TrainModel(training_data)
    \/ TrainFit
    \/ TrainFlag

\* one student in the loop, the predictor trained beside it
SpecLoop == Init /\ [][NextLoop]_vars

\* C26: in the loop the stored current_difficulty of the student is in
\* [1.0, 10.0] in every state, and a round on an untrained predictor
\* changes it by at most 0.5.
C26_LoopDifficulty ==
    [][/\ \A sid \in DOMAIN students' :
              InDifficultyRange(students'[sid].current_difficulty)
       /\ (last'.op = "submit_answer"
               /\ last'.arg.student_id \in DOMAIN students
               /\ ~is_trained) =>
              LET sid == last'.arg.student_id
                  change == Sub(students'[sid].current_difficulty,
                                students[sid].current_difficulty)
              IN  Le(Q(-1, 2), change) /\ Le(change, Q(1, 2))]_vars

\* two rounds on an untrained predictor, each a step of 0.5 up
C26_Witness ==
    /\ last.op = "submit_answer"
    /\ ~is_trained
    /\ LogStudent \in DOMAIN students
    /\ students[LogStudent].total_questions = 2
    /\ students[LogStudent].current_difficulty = Q(2, 1)

====
